---- MODULE Spec2Model ----
(***************************************************************************)
(* Model of torchqrnn/qrnn.py: QRNNLayer, BiDirQRNNLayer and QRNN.          *)
(*                                                                         *)
(* Arrays are nested sequences indexed [time][batch][feature].  Numbers    *)
(* are fixed-point integers, One standing for 1.0; a product is rounded    *)
(* down to the grid, as a floating-point product is rounded.  None, the    *)
(* absent value of Python, is the empty sequence.                          *)
(***************************************************************************)
EXTENDS Integers, Sequences, FiniteSets, TLC

\* ---------------------------------------------------------------- bounds
\* fixed-point representation of 1.0
One == 2
\* longest input sequence of one forward call
MaxT == 3
\* largest batch size
MaxB == 2
\* largest number of layers of a stack
MaxLayers == 2
\* most forward calls on a stack between two resets
MaxCalls == 2

None == <<>>

\* tokens an input row is built from
Tokens == {0, One}
\* (input_size, hidden_size) of the layers built
Sizes == {<<2, 2>>}
\* zoneout and dropout probabilities: 0 and 0.5
Probs == {0, One \div 2}
\* Bernoulli mask patterns
MaskIds == {0, 2}

\* ------------------------------------------------------ array primitives
Min(a, b) == IF a < b THEN a ELSE b
Max(a, b) == IF a > b THEN a ELSE b

\* rounded product of two fixed-point numbers
fmul(a, b) == (a * b) \div One

RECURSIVE SumTo(_, _)
SumTo(f, n) == IF n = 0 THEN 0 ELSE f[n] + SumTo(f, n - 1)

\* the sequence <<f[1], ..., f[n]>>
RECURSIVE Tup(_, _)
Tup(f, n) == IF n = 0 THEN <<>> ELSE Append(Tup(f, n - 1), f[n])

\* the (T, B, D) array whose element (t, b, d) is Op(t, b, d)
Map3(Op(_, _, _), T, B, D) ==
    Tup([t \in 1..T |-> Tup([b \in 1..B |-> Tup([d \in 1..D |-> Op(t, b, d)], D)], B)], T)

\* the (B, D) array whose element (b, d) is Op(b, d)
Map2(Op(_, _), B, D) == Tup([b \in 1..B |-> Tup([d \in 1..D |-> Op(b, d)], D)], B)

\* torch.nn.functional.tanh: odd, monotone, range [-1, 1]
tanh(x) == Max(0 - One, Min(One, x))
\* torch.nn.functional.sigmoid: monotone, range [0, 1], sigmoid(0) = 0.5
sigmoid(x) == Max(0, Min(One, (x + One) \div 2))

TimeOf(A) == Len(A)
BatchOf(A) == Len(A[1])
WidthOf(A) == Len(A[1][1])
Shape3(A) == <<TimeOf(A), BatchOf(A), WidthOf(A)>>

\* torch.cat(list, 0) of two arrays
Cat0(A, B) == A \o B
\* torch.cat([A, B], -1): feature-wise concatenation; needs equal time and batch
Cat2(A, B) ==
    Tup([t \in 1..Len(A) |-> Tup([b \in 1..Len(A[t]) |-> A[t][b] \o B[t][b]], Len(A[t]))], Len(A))
\* torch.flip(A, [0])
Flip(A) == Tup([t \in 1..Len(A) |-> A[Len(A) + 1 - t]], Len(A))
\* A * 0
Zeros(A) == Map3(LAMBDA t, b, d : 0, TimeOf(A), BatchOf(A), WidthOf(A))

\* ------------------------------------------------------------ QRNNLayer
\* the widest array a layer reads or writes: 3 gates, or a window of 2 over a
\* bidirectional output
WidthLimit == 4 * (CHOOSE n \in {sz[1] : sz \in Sizes} \cup {sz[2] : sz \in Sizes} :
                     \A sz \in Sizes : n >= sz[1] /\ n >= sz[2])

\* the parameters of nn.Linear(window * input_size, k * hidden_size), one set
\* per seed: weights in {-1, 0, 1}, biases in {-0.5, 0, 0.5}
WeightTable ==
    Tup([s \in 1..(2 * MaxLayers + 2) |->
            Tup([j \in 1..WidthLimit |->
                    Tup([i \in 1..WidthLimit |-> (((s + j + 2 * i) % 3) - 1) * One],
                        WidthLimit)],
                WidthLimit)],
        2 * MaxLayers + 2)
BiasTable ==
    Tup([s \in 1..(2 * MaxLayers + 2) |->
            Tup([j \in 1..WidthLimit |-> ((s + 2 * j) % 3) - 1], WidthLimit)],
        2 * MaxLayers + 2)

\* QRNNLayer.__init__
NewLayer(input_size, hidden_size, save_prev_x, zoneout, window, output_gate, use_cuda, seed) ==
    [window |-> window, input_size |-> input_size,
     hidden_size |-> IF hidden_size # 0 THEN hidden_size ELSE input_size,
     zoneout |-> zoneout, save_prev_x |-> save_prev_x, prevX |-> None,
     output_gate |-> output_gate, use_cuda |-> use_cuda, seed |-> seed]

LayerResetKeepsCache(L) == L

\* QRNNLayer.reset
LayerReset(L) == [L EXCEPT !.prevX = None]

\* number of gate arrays the projection produces
GateCount(L) == IF L.output_gate THEN 3 ELSE 2

\* self.linear applied to one feature row
LinearRow(L, row) ==
    Tup([j \in 1..(GateCount(L) * L.hidden_size) |->
            BiasTable[L.seed][j]
            + SumTo([i \in 1..Len(row) |-> fmul(WeightTable[L.seed][j][i], row[i])], Len(row))],
        GateCount(L) * L.hidden_size)

\* self.linear(source) on a (time, batch, feature) array
Linear(L, source) ==
    Tup([t \in 1..Len(source) |->
            Tup([b \in 1..Len(source[t]) |-> LinearRow(L, source[t][b])], Len(source[t]))],
        Len(source))

\* Y.chunk(k, dim=2)[n - 1]
Chunk(Y, n, width) ==
    Tup([t \in 1..Len(Y) |->
            Tup([b \in 1..Len(Y[t]) |-> SubSeq(Y[t][b], (n - 1) * width + 1, n * width)],
                Len(Y[t]))],
        Len(Y))

BoundaryAlwaysZero(L, X) == Zeros(SubSeq(X, 1, 1))

\* the x_{-1} boundary value of a window-2 layer
Boundary(L, X) == IF L.prevX # None THEN L.prevX ELSE Zeros(SubSeq(X, 1, 1))

\* the shifted array Xm1
Shifted(L, X) ==
    IF Len(X) > 1 THEN Cat0(Boundary(L, X), SubSeq(X, 1, Len(X) - 1)) ELSE Boundary(L, X)

\* the two torch.cat calls succeed
WindowOk(L, X) ==
    \/ L.window = 1
    \/ L.prevX = None
    \/ /\ BatchOf(L.prevX) = BatchOf(X)
       /\ Len(X) > 1 => WidthOf(L.prevX) = WidthOf(X)

\* the windowed source
WindowSource(L, X) == IF L.window = 1 THEN X ELSE Cat2(X, Shifted(L, X))

\* a Bernoulli sample of the shape of F; the pattern stands for the draw
MaskAt(m, t, b, j) == IF m = 0 THEN 1 ELSE IF m = 1 THEN 0 ELSE (t + b + j) % 2

\* zoneout on the forget gates
Zoneout(L, training, F, m) ==
    IF L.zoneout = 0 THEN F
    ELSE IF training
         THEN Map3(LAMBDA t, b, j : F[t][b][j] * MaskAt(m, t, b, j),
                   TimeOf(F), BatchOf(F), WidthOf(F))
         ELSE Map3(LAMBDA t, b, j : fmul(F[t][b][j], One - L.zoneout),
                   TimeOf(F), BatchOf(F), WidthOf(F))

\* ----------------------------------------------------------- ForgetMult
\* An initial state is None or [rank, val]: a (batch, hidden) array, or the
\* single-step (1, batch, hidden) array a layer returns.
HiddenShape(hidden) ==
    IF hidden = None THEN <<>>
    ELSE IF hidden.rank = 2 THEN <<Len(hidden.val), Len(hidden.val[1])>>
    ELSE <<Len(hidden.val), Len(hidden.val[1]), Len(hidden.val[1][1])>>

HiddenAt(hidden, b, j) == IF hidden.rank = 2 THEN hidden.val[b][j] ELSE hidden.val[1][b][j]

\* the initial state fits the gate arrays
HiddenOk(F, hidden) ==
    \/ hidden = None
    \/ hidden.rank = 2 /\ HiddenShape(hidden) = <<BatchOf(F), WidthOf(F)>>
    \/ hidden.rank = 3 /\ HiddenShape(hidden) = <<1, BatchOf(F), WidthOf(F)>>

\* one step of the loop: h = f[t] * x[t], plus (1 - f[t]) * prev_h when there is one
CPUStep(F, fx, t, prev_h) ==
    IF prev_h = None THEN fx
    ELSE Map2(LAMBDA b, j : fx[b][j] + fmul(One - F[t][b][j], HiddenAt(prev_h, b, j)),
              BatchOf(F), WidthOf(F))

CPUAppend(F, Z, hidden, t, result) ==
    Append(result,
           CPUStep(F, Map2(LAMBDA b, j : fmul(F[t][b][j], Z[t][b][j]), BatchOf(F), WidthOf(F)), t,
                   IF t = 1 THEN hidden ELSE [rank |-> 2, val |-> result[t - 1]]))

\* strategy (a): the sequential loop over time steps on whole (batch, hidden) rows
RECURSIVE CPUForgetMult(_, _, _, _)
CPUForgetMult(F, Z, hidden, t) ==
    IF t = 0 THEN <<>> ELSE CPUAppend(F, Z, hidden, t, CPUForgetMult(F, Z, hidden, t - 1))

\* strategy (b): one thread per (batch, hidden) pair walks its own column
RECURSIVE GPUCell(_, _, _, _, _, _)
GPUCell(F, Z, hidden, b, j, t) ==
    IF t = 0 THEN (IF hidden = None THEN 0 ELSE HiddenAt(hidden, b, j))
    ELSE fmul(F[t][b][j], Z[t][b][j]) + fmul(One - F[t][b][j], GPUCell(F, Z, hidden, b, j, t - 1))

GPUForgetMult(F, Z, hidden) ==
    Map3(LAMBDA t, b, j : GPUCell(F, Z, hidden, b, j, t), TimeOf(F), BatchOf(F), WidthOf(F))

ForgetMult(F, Z, hidden, use_cuda) ==
    IF use_cuda THEN GPUForgetMult(F, Z, hidden) ELSE CPUForgetMult(F, Z, hidden, Len(F))

\* ---------------------------------------------------- QRNNLayer.forward
\* the scan call of forward
ScanCallCpuDropsHidden(L, F, Z, hidden) ==
    ForgetMult(F, Z, IF L.use_cuda THEN hidden ELSE None, L.use_cuda)

ScanCall(L, F, Z, hidden) == ForgetMult(F, Z, hidden, L.use_cuda)

\* the output gate
OutputGate(L, O, C) ==
    IF L.output_gate
    THEN Map3(LAMBDA t, b, j : fmul(sigmoid(O[t][b][j]), C[t][b][j]),
              TimeOf(C), BatchOf(C), WidthOf(C))
    ELSE C

NextPrevXFirstStep(L, X) ==
    IF L.window > 1 /\ L.save_prev_x THEN SubSeq(X, 1, 1) ELSE L.prevX

NextPrevXNeverStored(L, X) == L.prevX

\* the cache after a forward pass over X
NextPrevX(L, X) ==
    IF L.window > 1 /\ L.save_prev_x THEN SubSeq(X, Len(X), Len(X)) ELSE L.prevX

\* a call that raised
Raised(L, what) ==
    [err |-> what, H |-> None, hn |-> None, prevX |-> L.prevX, source |-> None,
     F |-> None, Z |-> None, C |-> None]

TanhOf(A) == Map3(LAMBDA t, b, j : tanh(A[t][b][j]), TimeOf(A), BatchOf(A), WidthOf(A))
SigmoidOf(A) == Map3(LAMBDA t, b, j : sigmoid(A[t][b][j]), TimeOf(A), BatchOf(A), WidthOf(A))

\* the output gate and the return value
ForwardReturn(L, Y, source, prevXnew, F, Z, C) ==
    [err |-> "",
     H |-> OutputGate(L, IF L.output_gate THEN Chunk(Y, 3, L.hidden_size) ELSE None, C),
     hn |-> SubSeq(C, Len(C), Len(C)),
     prevX |-> prevXnew, source |-> source, F |-> F, Z |-> Z, C |-> C]

\* the scan over the activated gates
ForwardScan(L, Y, source, prevXnew, hidden, F, Z) ==
    IF ~HiddenOk(F, hidden)
    THEN [Raised(L, "forget_mult") EXCEPT !.source = source, !.F = F, !.Z = Z]
    ELSE ForwardReturn(L, Y, source, prevXnew, F, Z, ScanCall(L, F, Z, hidden))

\* forward from the reshaped projection Y on: activations, zoneout, scan, gate
ForwardTail(L, training, Y, source, prevXnew, hidden, m) ==
    ForwardScan(L, Y, source, prevXnew, hidden,
                Zoneout(L, training, SigmoidOf(Chunk(Y, 2, L.hidden_size)), m),
                TanhOf(Chunk(Y, 1, L.hidden_size)))

\* the projection of the windowed source
ForwardProject(L, training, X, source, hidden, m) ==
    IF WidthOf(source) # L.window * L.input_size THEN Raised(L, "linear")
    ELSE ForwardTail(L, training, Linear(L, source), source, NextPrevX(L, X), hidden, m)

\* forward on a (time, batch, feature) array X
Forward3(L, training, X, hidden, m) ==
    IF ~WindowOk(L, X) THEN Raised(L, "cat")
    ELSE ForwardProject(L, training, X, WindowSource(L, X), hidden, m)

\* forward on the (rows, columns) data of a 4-component structure: seq_len is
\* the row count and batch_size the column count
Forward2(L, training, X, hidden, m) ==
    IF L.window # 1 THEN Raised(L, "index")
    ELSE IF Len(X[1]) # L.input_size THEN Raised(L, "linear")
    ELSE IF Len(X[1]) # 1 THEN Raised(L, "view")
    ELSE ForwardTail(L, training, Tup([t \in 1..Len(X) |-> <<LinearRow(L, X[t])>>], Len(X)),
                     X, L.prevX, hidden, m)

\* a (time, batch, feature) array as an input of forward
Tensor3(X) == [kind |-> "tensor", rank |-> 3, val |-> X]

\* QRNNLayer.forward.  An input is [kind, rank, val]: a tensor of that rank, or
\* a 4-component packed structure whose data has that rank.
Forward(L, training, inp, hidden, m) ==
    IF inp.kind = "tensor" /\ inp.rank = 3 THEN Forward3(L, training, inp.val, hidden, m)
    ELSE IF inp.kind = "tensor"
         THEN IF Len(inp.val) # 4 THEN Raised(L, "unpack input") ELSE Raised(L, "unpack size")
    ELSE IF inp.rank # 2 THEN Raised(L, "unpack size")
    ELSE Forward2(L, training, inp.val, hidden, m)

\* ------------------------------------------------------- BiDirQRNNLayer
\* A unit of a stack is a QRNNLayer (bidir FALSE, the layer in fwd) or a
\* BiDirQRNNLayer with its forward_qrnn and backward_qrnn.

\* BiDirQRNNLayer.__init__; kw holds the keyword arguments
NewBiDir(input_size, hidden_size, kw, seed) ==
    [bidir |-> TRUE, prevX |-> None,
     fwd |-> NewLayer(input_size, hidden_size, kw.save_prev_x, kw.zoneout, kw.window,
                      kw.output_gate, kw.use_cuda, seed),
     bwd |-> NewLayer(input_size, hidden_size, kw.save_prev_x, kw.zoneout, kw.window,
                      kw.output_gate, kw.use_cuda, seed + 1)]

\* a plain QRNNLayer as a unit of a stack
NewPlain(input_size, hidden_size, kw, seed) ==
    [bidir |-> FALSE, prevX |-> None,
     fwd |-> NewLayer(input_size, hidden_size, kw.save_prev_x, kw.zoneout, kw.window,
                      kw.output_gate, kw.use_cuda, seed),
     bwd |-> None]

\* what one scan call was handed: the shape of its initial state and the
\* hidden width of its gate arrays
ScanRecord(hidden, r) ==
    IF r.F = None THEN <<>>
    ELSE <<[hshape |-> HiddenShape(hidden), batch |-> BatchOf(r.F), width |-> WidthOf(r.F)]>>

\* what a unit did in one call
UnitTrace(U, X, hidden, rf, rb) ==
    [X |-> X, hidden |-> hidden, H |-> None, hn |-> None, prevF |-> U.fwd.prevX,
     prevB |-> IF U.bidir THEN U.bwd.prevX ELSE None,
     Hf |-> rf.H, hf |-> rf.hn, Hb |-> rb.H, hb |-> rb.hn,
     scans |-> ScanRecord(hidden, rf) \o ScanRecord(hidden, rb)]

NoResult == [err |-> "", H |-> None, hn |-> None, F |-> None]

BiDirJoinNoRealign(U, X, hidden, rf, rb) ==
    IF rb.err # ""
    THEN [err |-> rb.err, H |-> None, hn |-> None,
          unit |-> [U EXCEPT !.fwd.prevX = rf.prevX], trace |-> UnitTrace(U, X, hidden, rf, rb)]
    ELSE [err |-> "", H |-> Cat2(rf.H, rb.H), hn |-> Cat2(rf.hn, rb.hn),
          unit |-> [U EXCEPT !.fwd.prevX = rf.prevX, !.bwd.prevX = rb.prevX],
          trace |-> UnitTrace(U, X, hidden, rf, rb)]

\* the re-reversal of the backward output and the two concatenations
BiDirJoin(U, X, hidden, rf, rb) ==
    IF rb.err # ""
    THEN [err |-> rb.err, H |-> None, hn |-> None,
          unit |-> [U EXCEPT !.fwd.prevX = rf.prevX], trace |-> UnitTrace(U, X, hidden, rf, rb)]
    ELSE [err |-> "", H |-> Cat2(rf.H, Flip(rb.H)), hn |-> Cat2(rf.hn, rb.hn),
          unit |-> [U EXCEPT !.fwd.prevX = rf.prevX, !.bwd.prevX = rb.prevX],
          trace |-> UnitTrace(U, X, hidden, rf, rb)]

\* the backward-time layer runs on the reversed input, with the same hidden
BiDirBackward(U, training, X, hidden, m, rf) ==
    IF rf.err # ""
    THEN [err |-> rf.err, H |-> None, hn |-> None, unit |-> U,
          trace |-> UnitTrace(U, X, hidden, rf, NoResult)]
    ELSE BiDirJoin(U, X, hidden, rf, Forward(U.bwd, training, Tensor3(Flip(X)), hidden, m))

\* BiDirQRNNLayer.forward
BiDirForward(U, training, X, hidden, m) ==
    BiDirBackward(U, training, X, hidden, m, Forward(U.fwd, training, Tensor3(X), hidden, m))

PlainResult(U, X, hidden, r) ==
    [err |-> r.err, H |-> r.H, hn |-> r.hn, unit |-> [U EXCEPT !.fwd.prevX = r.prevX],
     trace |-> UnitTrace(U, X, hidden, r, NoResult)]

\* layer(input, hidden) on a unit of either kind
UnitForward(U, training, X, hidden, m) ==
    IF U.bidir THEN BiDirForward(U, training, X, hidden, m)
    ELSE PlainResult(U, X, hidden, Forward(U.fwd, training, Tensor3(X), hidden, m))

\* -------------------------------------------------------------- QRNN
RECURSIVE NewLayersOneWidth(_, _, _, _, _)
NewLayersOneWidth(input_size, hidden_size, bidirectional, kw, n) ==
    IF n = 0 THEN <<>>
    ELSE Append(NewLayersOneWidth(input_size, hidden_size, bidirectional, kw, n - 1),
                IF bidirectional
                THEN NewBiDir(IF n = 1 THEN input_size ELSE hidden_size, hidden_size, kw, 2 * n - 1)
                ELSE NewPlain(IF n = 1 THEN input_size ELSE hidden_size, hidden_size, kw, 2 * n - 1))

\* the layer list of QRNN.__init__
RECURSIVE NewLayers(_, _, _, _, _)
NewLayers(input_size, hidden_size, bidirectional, kw, n) ==
    IF n = 0 THEN <<>>
    ELSE Append(NewLayers(input_size, hidden_size, bidirectional, kw, n - 1),
                IF bidirectional
                THEN NewBiDir(IF n = 1 THEN input_size ELSE hidden_size * 2, hidden_size, kw, 2 * n - 1)
                ELSE NewPlain(IF n = 1 THEN input_size ELSE hidden_size, hidden_size, kw, 2 * n - 1))

\* QRNN.__init__
NewQRNN(input_size, hidden_size, num_layers, dropout, bidirectional, kw) ==
    [input_size |-> input_size, hidden_size |-> hidden_size, num_layers |-> num_layers,
     dropout |-> dropout, bidirectional |-> bidirectional,
     layers |-> NewLayers(input_size, hidden_size, bidirectional, kw, num_layers)]

\* QRNN.reset: layer.reset() on each unit in turn, from unit i on; a
\* BiDirQRNNLayer has no reset attribute
RECURSIVE QRNNReset(_, _)
QRNNReset(S, i) ==
    IF i > Len(S.layers) THEN [err |-> "", layers |-> S.layers]
    ELSE IF S.layers[i].bidir THEN [err |-> "AttributeError", layers |-> S.layers]
    ELSE QRNNReset([S EXCEPT !.layers[i].fwd = LayerReset(@)], i + 1)

\* torch.nn.functional.dropout(input, p, training): survivors are rescaled
Dropout(A, p, training, m) ==
    IF ~training THEN A
    ELSE Map3(LAMBDA t, b, j : MaskAt(m, t, b, j) * ((A[t][b][j] * One) \div (One - p)),
              TimeOf(A), BatchOf(A), WidthOf(A))

\* hidden[i] of the stacked initial hidden
HiddenSlice(hidden, i) == IF hidden = None THEN None ELSE [rank |-> 2, val |-> hidden[i]]

\* the loop of QRNN.forward from unit i on; acc holds the running input, the
\* hidden states collected and the units as the calls left them
RECURSIVE StackLoop(_, _, _, _, _, _)
RECURSIVE StackStep(_, _, _, _, _, _, _)
StackStep(S, training, hidden, m, i, acc, r) ==
    StackLoop(S, training, hidden, m, i + 1,
              [err |-> r.err,
               layers |-> [acc.layers EXCEPT ![i] = r.unit],
               hns |-> IF r.err = "" THEN Append(acc.hns, r.hn) ELSE acc.hns,
               trace |-> Append(acc.trace, [r.trace EXCEPT !.H = r.H, !.hn = r.hn]),
               out |-> IF r.err # "" THEN None
                       ELSE IF S.dropout # 0 /\ i < Len(S.layers)
                       THEN Dropout(r.H, S.dropout, training, m) ELSE r.H])

StackLoop(S, training, hidden, m, i, acc) ==
    IF i > Len(S.layers) \/ acc.err # "" THEN acc
    ELSE StackStep(S, training, hidden, m, i, acc,
                   UnitForward(S.layers[i], training, acc.out, HiddenSlice(hidden, i), m))

\* torch.cat(next_hidden, 0).view(num_layers, batch, width of the first)
StackHiddenRows(S, acc) ==
    IF \E i \in 1..Len(acc.hns) : Shape3(acc.hns[i]) # Shape3(acc.hns[1])
    THEN [acc EXCEPT !.err = "cat", !.out = None, !.hns = None]
    ELSE IF Len(acc.hns) # S.num_layers
    THEN [acc EXCEPT !.err = "view", !.out = None, !.hns = None]
    ELSE [acc EXCEPT !.hns = Tup([i \in 1..S.num_layers |-> acc.hns[i][1]], S.num_layers)]

StackReturn(S, acc) ==
    IF acc.err # "" THEN [acc EXCEPT !.hns = None] ELSE StackHiddenRows(S, acc)

\* QRNN.forward
QRNNForward(S, training, X, hidden, m) ==
    StackReturn(S, StackLoop(S, training, hidden, m, 1,
                             [err |-> "", layers |-> S.layers, hns |-> <<>>, trace |-> <<>>,
                              out |-> X]))

\* ------------------------------------------------------------- inputs
\* element (b, d) of the row that embeds token v
Elem(v, b, d) == v * d + (b - 1)
Row(v, B, D) == Map2(LAMBDA b, d : Elem(v, b, d), B, D)

\* the token sequences of length T that are constant or alternate
SeqsOfLen(T) ==
    {[t \in 1..T |-> IF t % 2 = 1 THEN a ELSE b] : a \in Tokens, b \in Tokens}

\* the token sequences of length T that step once, after the first token
StepSeqsOfLen(T) == {[t \in 1..T |-> IF t = 1 THEN a ELSE One - a] : a \in Tokens}

\* token sequences of length 1..n
TokenSeqs(n) == UNION {SeqsOfLen(T) : T \in 1..n}

\* the (T, B, D) array of a token sequence
Embed(ts, B, D) == Tup([t \in 1..Len(ts) |-> Row(ts[t], B, D)], Len(ts))


\* ------------------------------------------------- one layer, by itself
VARIABLES layer, training, batch, last, twin, chain, stack, scall

vars == <<layer, training, batch, last, twin, chain, stack, scall>>

NoCall == [op |-> "init", inp |-> None, hidden |-> None, prev |-> None, mask |-> 0,
           use_cuda |-> TRUE, afterReset |-> FALSE, stale |-> FALSE,
           res |-> [err |-> "", H |-> None, hn |-> None, prevX |-> None, source |-> None,
                    F |-> None, Z |-> None, C |-> None]]

NoStackCall == [op |-> "init", calls |-> 0, inp |-> None, hidden |-> None, mask |-> 0, err |-> "",
                out |-> None, hn |-> None, trace |-> <<>>]

\* a layer as constructed, with the call records empty
InitLayer(L, tr) ==
    /\ stack = None
    /\ scall = NoStackCall
    /\ layer = L
    /\ training = tr
    /\ batch = MaxB
    /\ last = NoCall
    /\ twin = None
    /\ chain = None

\* every window, caching, output-gate and zoneout setting, in inference mode
Init ==
    \E window \in {1, 2}, save_prev_x \in BOOLEAN, output_gate \in BOOLEAN,
       zoneout \in Probs, sz \in Sizes :
       InitLayer(NewLayer(sz[1], sz[2], save_prev_x, zoneout, window, output_gate, TRUE, 1), FALSE)

\* initial states a caller passes: none, a fresh (batch, hidden) array, or the
\* final hidden the previous call returned
FreshHiddens == {None, [rank |-> 2, val |-> Row(One, batch, layer.hidden_size)]}

Hiddens == FreshHiddens \cup (IF chain # None THEN {[rank |-> 3, val |-> chain.hn]} ELSE {})

Masks == IF layer.zoneout # 0 /\ training THEN MaskIds ELSE {0}

\* the second of two calls with identical arguments, one per scan strategy
IsTwin(inp, hidden) ==
    /\ last.op = "forward" /\ last.res.err = ""
    /\ last.inp = inp /\ last.hidden = hidden
    /\ last.use_cuda # layer.use_cuda

\* the call continues the sequence of the calls since the reset
Continues(hidden) == hidden # None /\ hidden.rank = 3

\* the state after a call of forward that ended as res
AfterForward(inp, hidden, m, res) ==
    /\ last' = [op |-> "forward", inp |-> inp, hidden |-> hidden, prev |-> layer.prevX,
                mask |-> m, use_cuda |-> layer.use_cuda, afterReset |-> last.op = "reset",
                stale |-> last.op = "reset" /\ last.prev # None /\ last.prev # Zeros(last.prev),
                res |-> res]
    /\ layer' = [layer EXCEPT !.prevX = res.prevX]
    /\ twin' = IF IsTwin(inp, hidden)
               THEN [H |-> last.res.H, hn |-> last.res.hn, prev |-> last.prev] ELSE None
    /\ chain' = IF res.err # "" \/ inp.rank # 3 THEN None
                ELSE IF Continues(hidden)
                THEN [chain EXCEPT !.X = @ \o inp.val, !.H = @ \o res.H, !.hn = res.hn,
                                   !.calls = @ + 1]
                ELSE IF layer.prevX = None /\ layer.window = 2 /\ layer.save_prev_x
                THEN [X |-> inp.val, H |-> res.H, h0 |-> hidden, hn |-> res.hn, calls |-> 1]
                ELSE None
    /\ UNCHANGED <<training, batch, stack, scall>>

\* output, hn = layer(X, hidden)
CallForward(inp, hidden, m) == AfterForward(inp, hidden, m, Forward(layer, training, inp, hidden, m))

\* a call on a well-formed input, possibly continuing the sequence
ForwardCall ==
    \E ts \in TokenSeqs(MaxT), hidden \in Hiddens, m \in Masks :
        /\ Continues(hidden) => Len(chain.X) + Len(ts) <= MaxT
        /\ CallForward(Tensor3(Embed(ts, batch, layer.input_size)), hidden, m)

\* a call on a well-formed input of full length with no or a fresh initial state
ForwardFresh ==
    \E ts \in SeqsOfLen(MaxT), hidden \in FreshHiddens, m \in Masks :
        CallForward(Tensor3(Embed(ts, batch, layer.input_size)), hidden, m)

\* layer.reset()
ResetCall ==
    /\ layer' = LayerReset(layer)
    /\ last' = [NoCall EXCEPT !.op = "reset", !.prev = layer.prevX]
    /\ twin' = None
    /\ chain' = None
    /\ UNCHANGED <<training, batch, stack, scall>>

\* qrnn.use_cuda = False, and back
SetUseCuda ==
    /\ layer' = [layer EXCEPT !.use_cuda = ~@]
    /\ UNCHANGED <<training, batch, last, twin, chain, stack, scall>>

Next == ForwardCall \/ ResetCall

Spec == Init /\ [][Next]_vars

\* either scan strategy, switched between calls; training and inference
InitScan ==
    \E window \in {1, 2}, zoneout \in Probs, tr \in BOOLEAN, sz \in {<<1, 2>>} :
       /\ zoneout = 0 => ~tr
       /\ InitLayer(NewLayer(sz[1], sz[2], window = 2, zoneout, window, TRUE, TRUE, 1), tr)

NextScan == ForwardFresh \/ ResetCall \/ SetUseCuda

SpecScan == InitScan /\ [][NextScan]_vars

\* ------------------------------------------------------------ a stack
\* the state after a call of QRNN.forward that ended as res
AfterStackForward(X, hidden, m, res) ==
    /\ scall' = [op |-> "forward", calls |-> scall.calls + 1, inp |-> X, hidden |-> hidden,
                 mask |-> m, err |-> res.err, out |-> res.out, hn |-> res.hns,
                 trace |-> res.trace]
    /\ stack' = [stack EXCEPT !.layers = res.layers]
    /\ UNCHANGED <<layer, training, batch, last, twin, chain>>

StackMasks == IF stack.dropout # 0 /\ training THEN MaskIds ELSE {0}

\* output, hidden = qrnn(X, hidden)
CallStackForward(X, hidden, m) ==
    AfterStackForward(X, hidden, m, QRNNForward(stack, training, X, hidden, m))

\* output, hidden = qrnn(X) on a sequence of one step or of MaxT steps
StackForwardFresh ==
    \E ts \in StepSeqsOfLen(1) \cup StepSeqsOfLen(MaxT), m \in StackMasks :
        /\ scall.calls < MaxCalls
        /\ CallStackForward(Embed(ts, batch, stack.input_size), None, m)

\* output, hidden = qrnn(X, hidden) on the input of the call before and the
\* hidden it returned
StackForwardAgain ==
    \E m \in StackMasks :
        /\ scall.calls < MaxCalls
        /\ scall.op = "forward" /\ scall.err = "" /\ scall.hidden = None
        /\ CallStackForward(scall.inp, scall.hn, m)

AfterStackReset(res) ==
    /\ scall' = [NoStackCall EXCEPT !.op = "reset", !.err = res.err,
                                    !.calls = IF res.err = "" THEN 0 ELSE scall.calls]
    /\ stack' = [stack EXCEPT !.layers = res.layers]
    /\ UNCHANGED <<layer, training, batch, last, twin, chain>>

\* qrnn.reset()
StackReset == AfterStackReset(QRNNReset(stack, 1))

\* stacks of 1..MaxLayers units, one direction or two, window 1 or a caching
\* window 2, without dropout in inference mode and with dropout in training
InitStack ==
    \E bidirectional \in BOOLEAN, n \in 1..MaxLayers, window \in {1, 2}, dropout \in Probs,
       sz \in {<<1, 2>>, <<2, 1>>} :
       /\ stack = NewQRNN(sz[1], sz[2], n, dropout, bidirectional,
                          [save_prev_x |-> window = 2, zoneout |-> 0, window |-> window,
                           output_gate |-> TRUE, use_cuda |-> TRUE])
       /\ scall = NoStackCall
       /\ training = (dropout # 0)
       /\ batch = MaxB
       /\ layer = None /\ last = NoCall /\ twin = None /\ chain = None

NextStack == StackForwardFresh \/ StackForwardAgain \/ StackReset

SpecStack == InitStack /\ [][NextStack]_vars

\* ---------------------------------------- inputs that are no 3-D array
\* the (rows, columns) array of a token sequence
Embed2(ts, D) == Tup([t \in 1..Len(ts) |-> Tup([d \in 1..D |-> Elem(ts[t], 1, d)], D)], Len(ts))

\* 2-D tensors of up to MaxT + 1 rows, and 4-component packed structures whose
\* data is 2-D or 3-D
OtherInputs ==
    {[kind |-> "tensor", rank |-> 2, val |-> Embed2(ts, D)] :
        ts \in {[t \in 1..n |-> One] : n \in 1..(MaxT + 1)}, D \in {1, 2}}
    \cup {[kind |-> "packed", rank |-> 2, val |-> Embed2(ts, D)] :
        ts \in TokenSeqs(MaxT), D \in {1, 2}}
    \cup {[kind |-> "packed", rank |-> 3, val |-> Embed(ts, 1, D)] :
        ts \in {[t \in 1..n |-> One] : n \in 1..MaxT}, D \in {1, 2}}

\* a call on an input that is no (time, batch, feature) array
ForwardOther ==
    \E inp \in OtherInputs, hidden \in {None}, m \in Masks : CallForward(inp, hidden, m)

\* layers of either input width, window 1 or a caching window 2
InitShape ==
    \E window \in {1, 2}, output_gate \in BOOLEAN, sz \in {<<1, 2>>, <<2, 1>>} :
       InitLayer(NewLayer(sz[1], sz[2], window = 2, 0, window, output_gate, TRUE, 1), FALSE)

NextShape == ForwardOther \/ ForwardFresh \/ ResetCall

SpecShape == InitShape /\ [][NextShape]_vars

\* ------------------------------------------------------------- claims
Returned == last.op = "forward" /\ last.res.err = ""

\* the feature the shifted half of the source holds at (t, b, d)
ShiftedAt(t, b, d) ==
    IF t > 1 THEN last.inp.val[t - 1][b][d]
    ELSE IF last.prev # None THEN last.prev[1][b][d] ELSE 0

\* C1 as stated: two forward calls on the same layer with identical arguments,
\* one per scan strategy, return the same output and the same final hidden.
C1_Original ==
    twin # None => twin.H = last.res.H /\ twin.hn = last.res.hn

\* C1 amended: on the gate arrays and the initial state of every call the two
\* scan strategies agree at every time index; the two forward calls return the
\* same output and final hidden when the cache is the same before both and
\* zoneout draws no sample.
C1_Amended ==
    /\ Returned =>
          GPUForgetMult(last.res.F, last.res.Z, last.hidden)
            = CPUForgetMult(last.res.F, last.res.Z, last.hidden, Len(last.res.F))
    /\ (twin # None /\ twin.prev = last.prev /\ (layer.zoneout = 0 \/ ~training)) =>
          twin.H = last.res.H /\ twin.hn = last.res.hn

C1_Witness ==
    /\ twin # None /\ twin.prev = last.prev
    /\ last.hidden # None /\ layer.zoneout # 0 /\ ~training
    /\ Len(last.inp.val) > 1

\* C2: the first forward call after reset() on a window-2 caching layer pairs
\* X[0] with zeros, whatever the cache held before the reset.
C2_ZeroBoundaryAfterReset ==
    (Returned /\ last.afterReset /\ layer.window = 2 /\ layer.save_prev_x) =>
        \A b \in 1..BatchOf(last.inp.val) : \A d \in 1..layer.input_size :
            /\ last.res.source[1][b][d] = last.inp.val[1][b][d]
            /\ last.res.source[1][b][layer.input_size + d] = 0

C2_Witness ==
    /\ Returned /\ last.afterReset /\ layer.window = 2 /\ layer.save_prev_x
    /\ last.stale

\* C4: the windowed source has T steps; it is X for window 1, and for window 2
\* step t is X[t] followed by X[t-1], the first step taking the cached prevX
\* or zeros.
C4_WindowedSource ==
    Returned =>
        /\ Len(last.res.source) = Len(last.inp.val)
        /\ layer.window = 1 => last.res.source = last.inp.val
        /\ layer.window = 2 =>
              \A t \in 1..Len(last.inp.val) : \A b \in 1..BatchOf(last.inp.val) :
                  /\ Len(last.res.source[t][b]) = 2 * layer.input_size
                  /\ \A d \in 1..layer.input_size :
                        /\ last.res.source[t][b][d] = last.inp.val[t][b][d]
                        /\ last.res.source[t][b][layer.input_size + d] = ShiftedAt(t, b, d)

C4_Witness ==
    /\ Returned /\ layer.window = 2 /\ Len(last.inp.val) = 1
    /\ last.prev # None /\ last.prev # Zeros(last.prev)

C9_Continuation ==
    (chain # None /\ layer.window = 2 /\ layer.save_prev_x
       /\ (layer.zoneout = 0 \/ ~training)) =>
        /\ Forward(LayerReset(layer), training, Tensor3(chain.X), chain.h0, 0).H = chain.H
        /\ Forward(LayerReset(layer), training, Tensor3(chain.X), chain.h0, 0).hn = chain.hn

C9_Witness ==
    /\ chain # None /\ chain.calls = 2 /\ chain.h0 # None
    /\ layer.window = 2 /\ layer.save_prev_x /\ layer.output_gate /\ layer.zoneout # 0
    /\ Len(chain.X) = MaxT

\* C6: forward on an input that is no 3-D (time, batch, feature) array ends in
\* an error, for every such input and every layer.
C6_NonArrayInputRaises ==
    (last.op = "forward" /\ ~(last.inp.kind = "tensor" /\ last.inp.rank = 3)) =>
        last.res.err # ""

\* the number of directions
Mult == IF stack.bidirectional THEN 2 ELSE 1

\* the final hidden of unit i in the last stack call, batch row b
UnitFinal(i, b) ==
    IF stack.layers[i].bidir
    THEN scall.trace[i].hf[1][b] \o scall.trace[i].hb[1][b]
    ELSE scall.trace[i].hf[1][b]

\* C3 as stated: QRNN.reset() completes without error and leaves every
\* constituent QRNNLayer, the sub-layers of bidirectional units included, with
\* an empty prevX.
C3_ResetClearsEveryLayer ==
    scall.op = "reset" =>
        /\ scall.err = ""
        /\ \A i \in 1..Len(stack.layers) :
              /\ stack.layers[i].fwd.prevX = None
              /\ stack.layers[i].bidir => stack.layers[i].bwd.prevX = None

\* C7: a forward call of a stack of L layers on a (T, B, D_in) input returns an
\* output of shape (T, B, D_h * mult) and a hidden of shape (L, B, D_h * mult)
\* whose row i is the final hidden of layer i.
C7_StackShapes ==
    (scall.op = "forward" /\ (scall.hidden = None \/ ~stack.bidirectional)) =>
        /\ scall.err = ""
        /\ Shape3(scall.out) = <<Len(scall.inp), BatchOf(scall.inp), stack.hidden_size * Mult>>
        /\ Shape3(scall.hn) = <<stack.num_layers, BatchOf(scall.inp), stack.hidden_size * Mult>>
        /\ \A i \in 1..stack.num_layers : \A b \in 1..BatchOf(scall.inp) :
              scall.hn[i][b] = UnitFinal(i, b)

C7_Witness ==
    /\ scall.op = "forward" /\ scall.err = "" /\ scall.hidden = None
    /\ stack.bidirectional /\ stack.num_layers = MaxLayers /\ stack.dropout # 0 /\ training
    /\ Len(scall.inp) = MaxT
    /\ scall.hn[1] # scall.hn[MaxLayers]

\* the forward-time and backward-time layers of unit i as they were before the
\* last stack call
FwdBefore(i) == [stack.layers[i].fwd EXCEPT !.prevX = scall.trace[i].prevF]
BwdBefore(i) == [stack.layers[i].bwd EXCEPT !.prevX = scall.trace[i].prevB]

\* the input of unit i in reverse time order
Reversed(i) ==
    Tup([t \in 1..Len(scall.trace[i].X) |-> scall.trace[i].X[Len(scall.trace[i].X) + 1 - t]],
        Len(scall.trace[i].X))

\* unit i is bidirectional and returned
BiDirReturned(i) ==
    /\ i \in 1..Len(scall.trace)
    /\ stack.layers[i].bidir
    /\ scall.trace[i].H # None

\* C8: a bidirectional unit returns, at every time index t, the forward-time
\* layer's output at t followed by the output the backward-time layer produced
\* at index T-1-t of the reversed input, and as final hidden the two layers'
\* final hiddens side by side.
C8_BiDirRealigned ==
    (scall.op = "forward") => \A i \in 1..Len(scall.trace) : BiDirReturned(i) =>
        /\ scall.trace[i].Hf
             = Forward(FwdBefore(i), training, Tensor3(scall.trace[i].X),
                       scall.trace[i].hidden, scall.mask).H
        /\ scall.trace[i].Hb
             = Forward(BwdBefore(i), training, Tensor3(Reversed(i)),
                       scall.trace[i].hidden, scall.mask).H
        /\ \A t \in 1..Len(scall.trace[i].X) : \A b \in 1..BatchOf(scall.trace[i].X) :
              scall.trace[i].H[t][b]
                = scall.trace[i].Hf[t][b] \o scall.trace[i].Hb[Len(scall.trace[i].X) + 1 - t][b]
        /\ \A b \in 1..BatchOf(scall.trace[i].X) :
              scall.trace[i].hn[1][b] = scall.trace[i].hf[1][b] \o scall.trace[i].hb[1][b]

C8_Witness ==
    /\ scall.op = "forward" /\ BiDirReturned(1)
    /\ Len(scall.inp) = MaxT
    /\ scall.trace[1].Hb[1] # scall.trace[1].Hb[MaxT]
    /\ scall.trace[1].Hf # scall.trace[1].Hb

\* C10 as stated: in a call that is handed the aggregated hidden of the call
\* before, every scan receives an initial state of shape (batch, w), w being the
\* hidden width of its gate arrays.
C10_HiddenFitsScan ==
    (scall.op = "forward" /\ scall.hidden # None) =>
        \A i \in 1..Len(scall.trace) : \A k \in 1..Len(scall.trace[i].scans) :
            scall.trace[i].scans[k].hshape
              = <<scall.trace[i].scans[k].batch, scall.trace[i].scans[k].width>>

====
